---- MODULE Spec2Model ----
(***************************************************************************)
(* wroge/scan: scanning SQL rows into a target type T.                     *)
(*                                                                         *)
(* The model follows src/scan.go.  A behaviour is one call of one of the   *)
(* package functions All, One, First or Limit on a cursor (the Rows        *)
(* interface): Iter binds the Columns mapping to the cursor's column names,*)
(* then the Iterator method drives Next/Scan and returns through one of    *)
(* its return statements, whose errors.Join arguments are evaluated left   *)
(* to right (Err(), Close()).  The cursor is an environment: how many rows *)
(* it holds is fixed at the start, what a row holds and whether a call of  *)
(* Scan, Err, Close or Columns fails is chosen when the call is made.      *)
(***************************************************************************)
EXTENDS Integers, Sequences, FiniteSets, TLC

\* ----------------------------------------------------------------- bounds
\* The largest number of rows a cursor holds.
MaxRows == 3
\* The largest limit passed to Limit.
MaxLimit == 3
MaxPairRows == 2
MaxHandRows == 2
MaxHandCalls == 3

\* ----------------------------------------------------------------- errors
\* An error value is the sequence of the leaf errors it wraps; nil is the
\* empty sequence.  errors.Is(e, target) holds when target is among them.
NilErr == <<>>

\* scan.go:18
ErrNoRows == <<"sql: no rows in result set">>

\* scan.go:21
ErrTooManyRows == <<"sql: too many rows in result set">>

\* The errors the cursor and the decoder can produce.
ColumnsErr == <<"columns failed">>
ScanErr == <<"scan failed">>
RowsErr == <<"failed">>
CloseErr == <<"closing failed">>
UnmarshalErr == <<"json: cannot unmarshal">>

\* errors.Join: drops the nil arguments, keeps the others in order, and is nil
\* when none is left.
RECURSIVE Join(_)
Join(errs) ==
    IF errs = <<>> THEN NilErr
    ELSE IF Head(errs) = NilErr THEN Join(Tail(errs))
    ELSE Head(errs) \o Join(Tail(errs))

\* errors.Is on a joined error: some wrapped error is the target.
Is(e, target) == \E i \in 1..Len(e) : <<e[i]>> = target

\* ----------------------------------------------------------------- values
\* The SQL NULL (a nil pointer, a nil []byte, a nil interface).
NULL == "NULL"

\* The target type T (Post of the README): all fields zero.
Zero == [ID |-> "", Title |-> "", Authors |-> <<>>]

\* A slice of T: Go tells a nil slice from an empty one.
NilSlice == [isNil |-> TRUE, elems |-> <<>>]
Slice(s) == [isNil |-> FALSE, elems |-> s]

\* json.Unmarshal of a payload into a []string: a JSON array of texts decodes
\* to the texts, anything else (a bare text, a nil payload) is an error.
Unmarshal(b) ==
    CASE b = "[\"Jim\"]" -> [err |-> NilErr, value |-> <<"Jim">>]
      [] b = "[\"Jim\",\"Tim\"]" -> [err |-> NilErr, value |-> <<"Jim", "Tim">>]
      [] OTHER -> [err |-> UnmarshalErr, value |-> <<>>]

\* ---------------------------------------------------------------- columns
\* The setters a caller passes to Any, Null and JSON: func(*T, V).  ID, Title
\* and Authors assign that field; AddAuthor appends to what Authors holds.
Set(setter, t, v) ==
    CASE setter = "ID" -> [t EXCEPT !.ID = v]
      [] setter = "Title" -> [t EXCEPT !.Title = v]
      [] setter = "Authors" -> [t EXCEPT !.Authors = v]
      [] setter = "AddAuthor" -> [t EXCEPT !.Authors = Append(@, v)]

\* A Scanner of the Columns mapping: the Func built by Any, Null or JSON
\* around a setter.
NoScanner == [kind |-> "nil", set |-> "", def |-> ""]
ScanAny(setter) == [kind |-> "Any", set |-> setter, def |-> ""]
ScanNull(def, setter) == [kind |-> "Null", set |-> setter, def |-> def]
ScanJSON(setter) == [kind |-> "JSON", set |-> setter, def |-> ""]

\* The README's mapping for Post.
PostColumns ==
    [n \in {"id", "title", "authors"} |->
        CASE n = "id" -> ScanAny("ID")
          [] n = "title" -> ScanNull("default value", "Title")
          [] n = "authors" -> ScanJSON("Authors")]

\* A mapping whose entries all write Authors, two of them adding to what
\* an earlier Column of the row left there.
OverlapColumns ==
    [n \in {"id", "title", "authors"} |->
        CASE n = "id" -> ScanAny("AddAuthor")
          [] n = "title" -> ScanNull("No Title", "AddAuthor")
          [] n = "authors" -> ScanJSON("Authors")]

ColumnsChoices == {PostColumns, OverlapColumns}

\* The column names a cursor reports, and the values a column of that name
\* can hold in a row.
NamesChoices ==
    {<<"id", "title">>, <<"id", "extra", "authors">>, <<"title", "id">>, <<"authors", "title">>}

CellDomain(n) ==
    CASE n = "id" -> {"1", "2"}
      [] n = "title" -> {NULL, "Post Two"}
      [] n = "authors" -> {"[\"Jim\"]", "[\"Jim\",\"Tim\"]", "Jim"}
      [] OTHER -> {"x", "y"}

\* The rows a cursor reporting the names ns can deliver.
AllCells == UNION {CellDomain(n) : n \in {"id", "title", "authors", "extra"}}
RowContents(ns) ==
    {r \in [1..Len(ns) -> AllCells] : \A i \in 1..Len(ns) : r[i] \in CellDomain(ns[i])}

\* ------------------------------------------------------------------ state
VARIABLES
    op,        \* the package function called: All, One, First or Limit
    limit,     \* Limit's argument
    columns,   \* the Columns mapping passed in
    nrows,     \* the cursor: the number of rows it holds
    names,     \* the cursor: the column names it reports
    calls,     \* the method calls the caller itself made on the Iterator
    rindex,    \* the cursor: its position (fakeRows.index, counted from 1)
    log,       \* the cursor: the calls made on it, in order, with their results
    scans,     \* the cursor: the physical scans, with the row each delivered
    dest,      \* Iterator.dest: the slot bound to each column position
    scanners,  \* Iterator.scanners: the mutation of each column position
    slots,     \* the destination slots (slot 0 is Iter's ignore variable)
    index,     \* local of All and Limit
    list,      \* local of All and Limit
    typ,       \* local of One and First
    err,       \* local err of Iter, All, Limit and One
    ret,       \* the return statement being executed
    vals,      \* the errors.Join arguments evaluated so far
    held,      \* the value operand of the return statement, once read
    scanned,   \* the calls of Iterator.Scan: their number, and the last one
    pc,        \* the statement reached
    retList,   \* the returned slice (All, Limit)
    retT,      \* the returned value (One, First)
    retErr,    \* the returned error
    its,       \* two Iterators built by hand from the one Columns mapping
    heap,      \* the variables their Iter calls allocated, by address
    writer     \* the Iterator whose rows.Scan wrote last

inputs == <<op, limit, columns, nrows, names, calls>>
cursor == <<rindex, log, scans>>
iterator == <<dest, scanners>>
locals == <<index, list, typ, err>>
results == <<retList, retT, retErr>>
call == <<inputs, cursor, iterator, slots, locals, ret, vals, held, scanned, pc, results>>
pair == <<its, heap, writer>>
vars == <<call, pair>>

Ops == {"All", "One", "First", "Limit"}

\* ------------------------------------------------ the return statements
\* A return statement: the value returned and the arguments of its
\* errors.Join, in the order Go evaluates them.
NoReturn == [value |-> "none", args |-> <<>>]

Iter_150_NoClose == [value |-> "nil", args |-> <<"err">>]
Iter_150 == [value |-> "nil", args |-> <<"err", "Close()">>]

All_239_NoClose == [value |-> "nil", args |-> <<"err", "Err()">>]
All_239 == [value |-> "nil", args |-> <<"err", "Err()", "Close()">>]
All_245_NoErr == [value |-> "list", args |-> <<"Close()">>]
All_245 == [value |-> "list", args |-> <<"Err()", "Close()">>]

Limit_260_NoSentinel == [value |-> "nil", args |-> <<"err", "Err()", "Close()">>]
Limit_260_Partial == [value |-> "list", args |-> <<"err", "Err()", "Close()", "ErrTooManyRows">>]
Limit_260 == [value |-> "nil", args |-> <<"err", "Err()", "Close()", "ErrTooManyRows">>]
Limit_265_NoCause == [value |-> "nil", args |-> <<"Err()", "Close()">>]
Limit_265 == [value |-> "nil", args |-> <<"err", "Err()", "Close()">>]
Limit_275_Nil == [value |-> "nil", args |-> <<"Err()", "Close()">>]
Limit_275 == [value |-> "list", args |-> <<"Err()", "Close()">>]

One_289 == [value |-> "typ", args |-> <<"Err()", "Close()", "ErrNoRows">>]
One_294 == [value |-> "typ", args |-> <<"err", "Err()">>]
One_298_Both == [value |-> "typ", args |-> <<"Err()", "Close()", "ErrNoRows", "ErrTooManyRows">>]
One_298_NoSentinel == [value |-> "typ", args |-> <<"Err()", "Close()">>]
One_298 == [value |-> "typ", args |-> <<"Err()", "Close()", "ErrTooManyRows">>]
One_301_CloseFirst == [value |-> "typ", args |-> <<"Close()", "Err()">>]
One_301_Zero == [value |-> "nil", args |-> <<"Err()", "Close()">>]
One_301 == [value |-> "typ", args |-> <<"Err()", "Close()">>]

First_312_NoSentinel == [value |-> "typ", args |-> <<"Err()", "Close()">>]
First_312 == [value |-> "typ", args |-> <<"Err()", "Close()", "ErrNoRows">>]
First_315 == [value |-> "held", args |-> <<"Scan()", "Err()", "Close()">>]

\* --------------------------------------------------------------- Iterator
\* Func.Scan's fresh variable v: the zero value of the scanned type.
ZeroSlot(s) == IF s.kind = "Any" THEN "" ELSE NULL

\* Iter's binding of the reported names ns when its variable ignore is at the
\* address base: position i gets the variable v of its Scanner's Scan() call,
\* at base + i, or ignore when the mapping has no such name.
DestAt_Shared(ns, base) ==
    [i \in 1..Len(ns) |-> IF ns[i] \in DOMAIN columns THEN 1 + i ELSE 1]
DestAt(ns, base) ==
    [i \in 1..Len(ns) |-> IF ns[i] \in DOMAIN columns THEN base + i ELSE base]
ScannersFor(ns) ==
    [i \in 1..Len(ns) |-> IF ns[i] \in DOMAIN columns THEN columns[ns[i]] ELSE NoScanner]

\* Iter's binding of column position i: the Scanner's own slot, or ignore.
Bound(i) == names[i] \in DOMAIN columns
BindDest == DestAt(names, 0)
BindScanners_Fallback ==
    [i \in 1..Len(names) |-> IF Bound(i) THEN columns[names[i]] ELSE columns["id"]]
BindScanners == ScannersFor(names)
BindSlots ==
    [s \in 0..Len(names) |-> IF s > 0 /\ Bound(s) THEN ZeroSlot(columns[names[s]]) ELSE NULL]

\* rows.Scan(dest...) succeeding: the cell at each position is written to the
\* slot bound there (the last position bound to a slot is the one that stays).
WrittenWith(de, sl, cells) ==
    [s \in DOMAIN sl |->
        LET ps == {i \in 1..Len(de) : de[i] = s}
        IN  IF ps = {} THEN sl[s]
            ELSE cells[CHOOSE i \in ps : \A j \in ps : j <= i]]

\* Iterator.Scan: the argument list i.dest... of rows.Scan.
PassedDest_Rebound == [i \in 1..Len(dest) |-> IF rindex > 1 THEN 0 ELSE dest[i]]
PassedDest == dest
Written(sl, cells) == WrittenWith(PassedDest, sl, cells)

\* A call scan(t, a) of the caller's setter inside a Func: the target
\* afterwards, a nil error, and the argument the setter was called with.
Invoke(s, t, a) == [typ |-> Set(s.set, t, a), err |-> NilErr, args |-> <<a>>]

\* The Func of Any: the setter gets the scanned value.
MutateAny(s, v, t) == Invoke(s, t, v)

\* The Func of Null: the setter gets the value behind the scanned pointer,
\* or def when the pointer is nil.
MutateNull_Swapped(s, v, t) == IF v # NULL THEN Invoke(s, t, s.def) ELSE Invoke(s, t, v)
MutateNull(s, v, t) == IF v # NULL THEN Invoke(s, t, v) ELSE Invoke(s, t, s.def)

\* The Func of JSON: the setter gets the decoded payload, and is not called
\* when json.Unmarshal fails.
MutateJSON_SetsAnyway(s, v, t) ==
    LET u == Unmarshal(v)
    IN  [Invoke(s, t, u.value) EXCEPT !.err = u.err]
MutateJSON(s, v, t) ==
    LET u == Unmarshal(v)
    IN  IF u.err # NilErr THEN [typ |-> t, err |-> u.err, args |-> <<>>]
        ELSE Invoke(s, t, u.value)

\* The mutation a Scanner returns (the closure of Func.Scan), applied to the
\* target t with the slot's value v.
Mutate(s, v, t) ==
    CASE s.kind = "Any" -> MutateAny(s, v, t)
      [] s.kind = "Null" -> MutateNull(s, v, t)
      [] s.kind = "JSON" -> MutateJSON(s, v, t)

\* The loop of Iterator.Scan from position i on: nil scanners are skipped, the
\* first failing mutation ends it.
\* Its result carries the trace of the mutations called: the position, the
\* Scanner, the slot value it read, the setter's arguments and the error.
Applied(sc, i, v, r) ==
    [pos |-> i, scanner |-> sc[i], got |-> v, args |-> r.args, err |-> r.err]

RECURSIVE ApplyScanners_Continue(_, _, _)
ApplyScanners_Continue(i, sl, t) ==
    IF i > Len(scanners) THEN [typ |-> t, err |-> NilErr, trace |-> <<>>]
    ELSE IF scanners[i] = NoScanner THEN ApplyScanners_Continue(i + 1, sl, t)
    ELSE LET r == Mutate(scanners[i], sl[dest[i]], t)
             rest == ApplyScanners_Continue(i + 1, sl, r.typ)
         IN  [typ |-> rest.typ,
              err |-> IF r.err # NilErr THEN r.err ELSE rest.err,
              trace |-> <<Applied(scanners, i, sl[dest[i]], r)>> \o rest.trace]

RECURSIVE ApplyScanners_Reverse(_, _, _)
ApplyScanners_Reverse(i, sl, t) ==
    LET p == Len(scanners) + 1 - i
    IN  IF p < 1 THEN [typ |-> t, err |-> NilErr, trace |-> <<>>]
        ELSE IF scanners[p] = NoScanner THEN ApplyScanners_Reverse(i + 1, sl, t)
        ELSE LET r == Mutate(scanners[p], sl[dest[p]], t)
             IN  IF r.err # NilErr
                 THEN [typ |-> r.typ, err |-> r.err,
                       trace |-> <<Applied(scanners, p, sl[dest[p]], r)>>]
                 ELSE LET rest == ApplyScanners_Reverse(i + 1, sl, r.typ)
                      IN  [rest EXCEPT !.trace = <<Applied(scanners, p, sl[dest[p]], r)>> \o @]

RECURSIVE ApplyWith(_, _, _, _, _)
ApplyWith(sc, de, i, sl, t) ==
    IF i > Len(sc) THEN [typ |-> t, err |-> NilErr, trace |-> <<>>]
    ELSE IF sc[i] = NoScanner THEN ApplyWith(sc, de, i + 1, sl, t)
    ELSE LET r == Mutate(sc[i], sl[de[i]], t)
         IN  IF r.err # NilErr
             THEN [typ |-> r.typ, err |-> r.err,
                   trace |-> <<Applied(sc, i, sl[de[i]], r)>>]
             ELSE LET rest == ApplyWith(sc, de, i + 1, sl, r.typ)
                  IN  [rest EXCEPT !.trace = <<Applied(sc, i, sl[de[i]], r)>> \o @]

\* The loop over the scanners and slots of the Iterator of the call.
ApplyScanners(i, sl, t) == ApplyWith(scanners, dest, i, sl, t)

\* Iterator.Scan(&t) when the physical scan succeeds (ok) with the row cells,
\* or fails: the target, the error and the slots afterwards.
IteratorScan(t, ok, cells) ==
    IF ~ok THEN [typ |-> t, err |-> ScanErr, slots |-> slots, trace |-> <<>>]
    ELSE LET sl == Written(slots, cells)
             r == ApplyScanners(1, sl, t)
         IN  [typ |-> r.typ, err |-> r.err, slots |-> sl, trace |-> r.trace]

\* The record of the calls of Iterator.Scan: how many there were, and the
\* target before and after the last one, its error and its mutations.
NoScan == [n |-> 0, before |-> Zero, after |-> Zero, err |-> NilErr, trace |-> <<>>]
Scanned(t, r) ==
    [n |-> scanned.n + 1, before |-> t, after |-> r.typ, err |-> r.err, trace |-> r.trace]

\* The cursor's record of a physical scan: the row it was on, the
\* destinations it was handed, and the cells it delivered.
ScanRecord(ok, cells) ==
    [row |-> rindex, ok |-> ok, dest |-> PassedDest,
     cells |-> IF ok THEN cells ELSE <<>>]
Call(c, r) == [call |-> c, res |-> r]

\* ------------------------------------------------------------------- Init
\* No Iterator built by hand.
NoPair == its = <<>> /\ heap = <<>> /\ writer = 0

Init ==
    /\ NoPair
    /\ op \in Ops
    /\ limit \in (IF op = "Limit" THEN 0..MaxLimit ELSE {0})
    /\ columns \in ColumnsChoices
    /\ nrows \in 0..MaxRows
    /\ names \in NamesChoices
    /\ calls = 0
    /\ rindex = 0
    /\ log = <<>>
    /\ scans = <<>>
    /\ dest = <<>>
    /\ scanners = <<>>
    /\ slots = <<>>
    /\ index = 0
    /\ list = NilSlice
    /\ typ = Zero
    /\ err = NilErr
    /\ ret = NoReturn
    /\ vals = <<>>
    /\ held = Zero
    /\ scanned = NoScan
    /\ pc = "call"
    /\ retList = NilSlice
    /\ retT = Zero
    /\ retErr = NilErr

\* The first statement of the Iterator method each package function calls;
\* a caller of Iter itself gets the Iterator back.
Entry(o) ==
    CASE o = "All" -> "All_234"
      [] o = "Limit" -> "Limit_258"
      [] o = "One" -> "One_288"
      [] o = "First" -> "First_311"
      [] o = "Iter" -> "idle"

\* The var block of the method: Limit makes a slice of limit zero values.
InitList(o) == IF o = "Limit" THEN Slice([i \in 1..limit |-> Zero]) ELSE NilSlice

\* ---------------------------------------------------------------- actions
\* Iter, called by All, One, First and Limit: rows.Columns(), then the binding.
Iter ==
    /\ pc = "call"
    /\ \E cerr \in {NilErr, ColumnsErr} :
        /\ log' = Append(log, Call("Columns", IF cerr = NilErr THEN "ok" ELSE "err"))
        /\ err' = cerr
        /\ IF cerr # NilErr
           THEN /\ ret' = Iter_150
                /\ pc' = "return"
                /\ UNCHANGED <<dest, scanners, slots, list>>
           ELSE /\ dest' = BindDest
                /\ scanners' = BindScanners
                /\ slots' = BindSlots
                /\ list' = InitList(op)
                /\ pc' = Entry(op)
                /\ ret' = ret
    /\ UNCHANGED <<pair, inputs, rindex, scans, index, typ, vals, held, results, scanned>>

\* Iterator.Next: the cursor advances; true while it is on a row.
NextResult == rindex + 1 <= nrows
RowsNext ==
    /\ rindex' = rindex + 1
    /\ log' = Append(log, Call("Next", IF NextResult THEN "true" ELSE "false"))
    /\ scans' = scans

\* Leaving the loop for the return statement r.
Leave(r) == ret' = r /\ vals' = <<>> /\ pc' = "return"

\* All: *new(T), the element appended for the row
NewT_Carry == IF list.elems = <<>> THEN Zero ELSE list.elems[Len(list.elems)]
NewT == Zero

\* All: for i.Next()
AllNext ==
    /\ pc = "All_234"
    /\ RowsNext
    /\ IF NextResult
       THEN /\ list' = Slice(Append(list.elems, NewT))
            /\ pc' = "All_237"
            /\ UNCHANGED <<ret, vals>>
       ELSE /\ Leave(All_245)
            /\ list' = list
    /\ UNCHANGED <<pair, inputs, iterator, slots, index, typ, err, held, results, scanned>>

\* All: err = i.Scan(&list[index])
AllScan_Skip ==
    /\ pc = "All_237"
    /\ \E ok \in BOOLEAN, cells \in RowContents(names) :
        LET r == IteratorScan(list.elems[index + 1], ok, cells)
        IN  /\ scanned' = Scanned(list.elems[index + 1], r)
            /\ log' = Append(log, Call("Scan", IF ok THEN "ok" ELSE "err"))
            /\ scans' = Append(scans, ScanRecord(ok, cells))
            /\ slots' = r.slots
            /\ list' = Slice([list.elems EXCEPT ![index + 1] = r.typ])
            /\ err' = r.err
            /\ IF r.err # NilErr /\ ~NextResult
               THEN Leave(All_239) /\ index' = index
               ELSE index' = index + 1 /\ pc' = "All_234" /\ UNCHANGED <<ret, vals>>
    /\ UNCHANGED <<pair, inputs, rindex, iterator, typ, held, results>>
AllScan ==
    /\ pc = "All_237"
    /\ \E ok \in BOOLEAN, cells \in RowContents(names) :
        LET r == IteratorScan(list.elems[index + 1], ok, cells)
        IN  /\ scanned' = Scanned(list.elems[index + 1], r)
            /\ log' = Append(log, Call("Scan", IF ok THEN "ok" ELSE "err"))
            /\ scans' = Append(scans, ScanRecord(ok, cells))
            /\ slots' = r.slots
            /\ list' = Slice([list.elems EXCEPT ![index + 1] = r.typ])
            /\ err' = r.err
            /\ IF r.err # NilErr
               THEN Leave(All_239) /\ index' = index
               ELSE index' = index + 1 /\ pc' = "All_234" /\ UNCHANGED <<ret, vals>>
    /\ UNCHANGED <<pair, inputs, rindex, iterator, typ, held, results>>

\* Limit: if index < limit { list = list[:index] }
Trim_None(l, i) == l
Trim(l, i) == IF i < limit THEN Slice(SubSeq(l.elems, 1, i)) ELSE l

\* Limit: if index >= limit, the test at the head of the loop body
OverLimit_Late(i) == i > limit
OverLimit(i) == i >= limit

\* Limit: for i.Next(), with the index >= limit test that follows it and the
\* cut of the list that follows the loop
LimitNext ==
    /\ pc = "Limit_258"
    /\ RowsNext
    /\ IF NextResult
       THEN IF OverLimit(index)
            THEN Leave(Limit_260) /\ list' = list
            ELSE pc' = "Limit_263" /\ UNCHANGED <<ret, vals, list>>
       ELSE /\ Leave(Limit_275)
            /\ list' = Trim(list, index)
    /\ UNCHANGED <<pair, inputs, iterator, slots, index, typ, err, held, results, scanned>>

\* Limit: err = i.Scan(&list[index])
LimitScan ==
    /\ pc = "Limit_263"
    /\ \E ok \in BOOLEAN, cells \in RowContents(names) :
        LET r == IteratorScan(list.elems[index + 1], ok, cells)
        IN  /\ scanned' = Scanned(list.elems[index + 1], r)
            /\ log' = Append(log, Call("Scan", IF ok THEN "ok" ELSE "err"))
            /\ scans' = Append(scans, ScanRecord(ok, cells))
            /\ slots' = r.slots
            /\ list' = Slice([list.elems EXCEPT ![index + 1] = r.typ])
            /\ err' = r.err
            /\ IF r.err # NilErr
               THEN Leave(Limit_265) /\ index' = index
               ELSE index' = index + 1 /\ pc' = "Limit_258" /\ UNCHANGED <<ret, vals>>
    /\ UNCHANGED <<pair, inputs, rindex, iterator, typ, held, results>>

\* One: if !i.Next()
OneNext ==
    /\ pc = "One_288"
    /\ RowsNext
    /\ IF NextResult
       THEN pc' = "One_292" /\ UNCHANGED <<ret, vals>>
       ELSE Leave(One_289)
    /\ UNCHANGED <<pair, inputs, iterator, slots, locals, held, results, scanned>>

\* One: err = i.Scan(&typ)
OneScan ==
    /\ pc = "One_292"
    /\ \E ok \in BOOLEAN, cells \in RowContents(names) :
        LET r == IteratorScan(typ, ok, cells)
        IN  /\ scanned' = Scanned(typ, r)
            /\ log' = Append(log, Call("Scan", IF ok THEN "ok" ELSE "err"))
            /\ scans' = Append(scans, ScanRecord(ok, cells))
            /\ slots' = r.slots
            /\ typ' = r.typ
            /\ err' = r.err
            /\ IF r.err # NilErr
               THEN Leave(One_294)
               ELSE pc' = "One_297" /\ UNCHANGED <<ret, vals>>
    /\ UNCHANGED <<pair, inputs, rindex, iterator, index, list, held, results>>

\* One: if i.Next(), the look at a second row
OnePeek ==
    /\ pc = "One_297"
    /\ RowsNext
    /\ IF NextResult THEN Leave(One_298) ELSE Leave(One_301)
    /\ UNCHANGED <<pair, inputs, iterator, slots, locals, held, results, scanned>>

\* First: if !i.Next()
FirstNext_Always ==
    /\ pc = "First_311"
    /\ RowsNext
    /\ pc' = "First_315"
    /\ UNCHANGED <<ret, vals>>
    /\ UNCHANGED <<pair, inputs, iterator, slots, locals, held, results, scanned>>
FirstNext ==
    /\ pc = "First_311"
    /\ RowsNext
    /\ IF NextResult
       THEN pc' = "First_315" /\ UNCHANGED <<ret, vals>>
       ELSE Leave(First_312)
    /\ UNCHANGED <<pair, inputs, iterator, slots, locals, held, results, scanned>>

\* First: return typ, errors.Join(i.Scan(&typ), i.Err(), i.Close()).  Go
\* orders the three calls but not the read of the operand typ against the
\* call i.Scan(&typ) that writes it: the value returned is typ as it was
\* before the call or as the call left it.
OperandRead(before, after) == {before, after}

\* First: i.Scan(&typ), the first argument of the last errors.Join
FirstScan ==
    /\ pc = "First_315"
    /\ \E ok \in BOOLEAN, cells \in RowContents(names) :
        LET r == IteratorScan(typ, ok, cells)
        IN  /\ scanned' = Scanned(typ, r)
            /\ log' = Append(log, Call("Scan", IF ok THEN "ok" ELSE "err"))
            /\ scans' = Append(scans, ScanRecord(ok, cells))
            /\ slots' = r.slots
            /\ typ' = r.typ
            /\ held' \in OperandRead(typ, r.typ)
            /\ ret' = First_315
            /\ vals' = <<r.err>>
            /\ pc' = "return"
    /\ UNCHANGED <<pair, inputs, rindex, iterator, index, list, err, results>>

\* The next errors.Join argument of the return statement to evaluate.
Pending == pc = "return" /\ Len(vals) < Len(ret.args)
NextArg == ret.args[Len(vals) + 1]

\* An argument that is no call: the local err, or one of the two sentinels.
EvalOperand ==
    /\ Pending
    /\ NextArg \in {"err", "ErrNoRows", "ErrTooManyRows"}
    /\ vals' = Append(vals, CASE NextArg = "err" -> err
                              [] NextArg = "ErrNoRows" -> ErrNoRows
                              [] NextArg = "ErrTooManyRows" -> ErrTooManyRows)
    /\ UNCHANGED <<pair, inputs, cursor, iterator, slots, locals, ret, held, pc, results, scanned>>

\* Iterator.Err: rows.Err()
EvalErr_Dropped ==
    /\ Pending
    /\ NextArg = "Err()"
    /\ \E e \in {NilErr, RowsErr} :
        /\ vals' = Append(vals, NilErr)
        /\ log' = Append(log, Call("Err", IF e = NilErr THEN "nil" ELSE "err"))
    /\ UNCHANGED <<pair, inputs, rindex, scans, iterator, slots, locals, ret, held, pc, results, scanned>>
EvalErr ==
    /\ Pending
    /\ NextArg = "Err()"
    /\ \E e \in {NilErr, RowsErr} :
        /\ vals' = Append(vals, e)
        /\ log' = Append(log, Call("Err", IF e = NilErr THEN "nil" ELSE "err"))
    /\ UNCHANGED <<pair, inputs, rindex, scans, iterator, slots, locals, ret, held, pc, results, scanned>>

\* Iterator.Close: rows.Close()
EvalClose_Dropped ==
    /\ Pending
    /\ NextArg = "Close()"
    /\ \E e \in {NilErr, CloseErr} :
        /\ vals' = Append(vals, NilErr)
        /\ log' = Append(log, Call("Close", IF e = NilErr THEN "nil" ELSE "err"))
    /\ UNCHANGED <<pair, inputs, rindex, scans, iterator, slots, locals, ret, held, pc, results, scanned>>
EvalClose ==
    /\ Pending
    /\ NextArg = "Close()"
    /\ \E e \in {NilErr, CloseErr} :
        /\ vals' = Append(vals, e)
        /\ log' = Append(log, Call("Close", IF e = NilErr THEN "nil" ELSE "err"))
    /\ UNCHANGED <<pair, inputs, rindex, scans, iterator, slots, locals, ret, held, pc, results, scanned>>

\* The return: errors.Join of the evaluated arguments, and the value.
Return ==
    /\ pc = "return"
    /\ Len(vals) = Len(ret.args)
    /\ retErr' = Join(vals)
    /\ retList' = IF ret.value = "list" THEN list ELSE NilSlice
    /\ retT' = CASE ret.value = "typ" -> typ
                 [] ret.value = "held" -> held
                 [] OTHER -> Zero
    /\ pc' = "done"
    /\ UNCHANGED <<pair, inputs, cursor, iterator, slots, locals, ret, vals, held, scanned>>

Next ==
    \/ Iter
    \/ AllNext
    \/ AllScan
    \/ LimitNext
    \/ LimitScan
    \/ OneNext
    \/ OneScan
    \/ OnePeek
    \/ FirstNext
    \/ FirstScan
    \/ EvalOperand
    \/ EvalErr
    \/ EvalClose
    \/ Return

Spec == Init /\ [][Next]_vars

\* ----------------------------------------------------------------- claims
\* The number of calls of the cursor method c so far, and whether one failed.
Calls(c) == Cardinality({i \in 1..Len(log) : log[i].call = c})
CallFailed(c) == \E i \in 1..Len(log) : log[i] = Call(c, IF c = "Next" THEN "false" ELSE "err")

\* The call has returned.
Done == pc = "done"

\* rows.Columns() was called and succeeded.
ColumnsOk == Len(log) >= 1 /\ log[1] = Call("Columns", "ok")

\* A call of Iterator.Scan failed: the physical scan or a mutation.
ScanFailure ==
    IF op = "First" THEN ret = First_315 /\ vals[1] # NilErr
    ELSE ColumnsOk /\ err # NilErr

\* What the bound Columns make of the row cells alone: fresh slots, a zero
\* target.
Isolated(cells) == ApplyScanners(1, Written(BindSlots, cells), Zero).typ

\* The returned slice holds, in the cursor's order, every row of the cursor
\* decoded on its own.
DecodedList ==
    /\ Len(scans) = nrows
    /\ Len(retList.elems) = nrows
    /\ \A i \in 1..nrows :
        scans[i].row = i /\ retList.elems[i] = Isolated(scans[i].cells)

\* C1: All, First and Limit(n), once Columns() succeeded, never close the
\* cursor twice and have closed it exactly once when they return, whatever
\* the exit path.
C1_CloseExactlyOnce ==
    (op \in {"All", "First", "Limit"} /\ ColumnsOk) =>
        /\ Calls("Close") <= 1
        /\ Done => Calls("Close") = 1

\* C1 witness: Limit has returned after a mutation failed, the cursor closed once.
C1_Witness ==
    /\ Done /\ op = "Limit" /\ ColumnsOk
    /\ Is(retErr, UnmarshalErr)
    /\ Calls("Close") = 1

\* C2: One, once Columns() succeeded, has closed the cursor exactly once
\* when it returns, whatever the exit path.
C2_OneClosesOnce == (Done /\ op = "One" /\ ColumnsOk) => Calls("Close") = 1

\* C3: All on a cursor of k rows that all scan, with Err and Close nil,
\* returns no error and k elements, element i being row i decoded on its own
\* into a zero target.
C3_AllDecodesEachRow ==
    (/\ Done /\ op = "All" /\ ColumnsOk
     /\ ~ScanFailure /\ ~CallFailed("Err") /\ ~CallFailed("Close"))
        => retErr = NilErr /\ DecodedList

\* C3 witness: All has returned two or more rows decoded by Columns that add
\* to what the target holds.
C3_Witness ==
    /\ Done /\ op = "All" /\ columns = OverlapColumns
    /\ nrows >= 2 /\ retErr = NilErr
    /\ Len(retList.elems) = nrows

\* C4: One on a cursor of exactly one row that scans, with Err and Close
\* nil, returns that row decoded and a nil error.
C4_OneReturnsTheRow ==
    (/\ Done /\ op = "One" /\ ColumnsOk /\ nrows = 1
     /\ ~ScanFailure /\ ~CallFailed("Err") /\ ~CallFailed("Close"))
        => /\ retErr = NilErr
           /\ Len(scans) = 1
           /\ retT = Isolated(scans[1].cells)

\* C4 witness: One has returned the only row with a nil error.
C4_Witness ==
    /\ Done /\ op = "One" /\ nrows = 1
    /\ retErr = NilErr /\ retT # Zero

\* C5: One on a cursor of two or more rows whose row 1 scans returns an error
\* matching ErrTooManyRows after exactly two Next calls and one Scan call, of
\* row 1.
C5_OneTooManyRows ==
    (Done /\ op = "One" /\ ColumnsOk /\ nrows >= 2 /\ ~ScanFailure)
        => /\ Is(retErr, ErrTooManyRows)
           /\ Calls("Next") = 2
           /\ Calls("Scan") = 1
           /\ Len(scans) = 1 /\ scans[1].row = 1

\* C5 witness: One has returned ErrTooManyRows on a cursor of three rows.
C5_Witness ==
    /\ Done /\ op = "One" /\ nrows = 3
    /\ Is(retErr, ErrTooManyRows) /\ Calls("Next") = 2

\* C6: on an empty cursor One and First return the zero T and an error
\* matching ErrNoRows, without a Scan call.
C6_NoRows ==
    (Done /\ op \in {"One", "First"} /\ ColumnsOk /\ nrows = 0)
        => /\ retT = Zero
           /\ Is(retErr, ErrNoRows)
           /\ Calls("Scan") = 0

\* C6 witness: First has returned ErrNoRows on an empty cursor.
C6_Witness ==
    /\ Done /\ op = "First" /\ ColumnsOk /\ nrows = 0
    /\ Is(retErr, ErrNoRows) /\ Calls("Next") = 1

\* C7: First on a cursor of one or more rows whose row 1 scans returns row 1
\* decoded, after exactly one Next call and one Scan call, and never
\* ErrTooManyRows.
C7_FirstReturnsRow1 ==
    (Done /\ op = "First" /\ ColumnsOk /\ nrows >= 1 /\ ~ScanFailure)
        => /\ Len(scans) = 1 /\ scans[1].row = 1
           /\ retT = Isolated(scans[1].cells)
           /\ Calls("Next") = 1
           /\ Calls("Scan") = 1
           /\ ~Is(retErr, ErrTooManyRows)

\* C8: Limit(n) on a cursor of m <= n rows that all scan, with Err and Close
\* nil, returns no error and exactly the m rows decoded, in order.
C8_LimitReturnsAllRows ==
    (/\ Done /\ op = "Limit" /\ ColumnsOk /\ nrows <= limit
     /\ ~ScanFailure /\ ~CallFailed("Err") /\ ~CallFailed("Close"))
        => retErr = NilErr /\ DecodedList

\* C8 witness: Limit has returned fewer rows than its limit, and at least one.
C8_Witness ==
    /\ Done /\ op = "Limit" /\ retErr = NilErr
    /\ nrows >= 1 /\ nrows < limit
    /\ Len(retList.elems) = nrows

\* C9: Limit(n) on a cursor of m > n rows, the first n scanning, returns an
\* error matching ErrTooManyRows; n = 0 included.
C9_LimitTooManyRows ==
    (Done /\ op = "Limit" /\ ColumnsOk /\ nrows > limit /\ ~ScanFailure)
        => Is(retErr, ErrTooManyRows)

\* C9 witness: Limit(0) has returned ErrTooManyRows on a cursor that is not empty.
C9_Witness ==
    /\ Done /\ op = "Limit" /\ limit = 0 /\ nrows >= 1
    /\ Is(retErr, ErrTooManyRows)

\* C10: when every row was decoded, no stop condition was violated and Err()
\* was nil, an error of Close() is in the error returned.
C10_CloseErrorReturned ==
    (/\ Done /\ ColumnsOk /\ ~ScanFailure
     /\ ~Is(retErr, ErrNoRows) /\ ~Is(retErr, ErrTooManyRows)
     /\ ~CallFailed("Err") /\ CallFailed("Close"))
        => retErr # NilErr /\ Is(retErr, CloseErr)

\* C10 witness: All has returned the close error alone after one decoded row.
C10_Witness ==
    /\ Done /\ op = "All" /\ nrows = 1
    /\ Len(retList.elems) = 1
    /\ retErr = CloseErr

\* The terminal errors of the call so far: a physical scan failure, a
\* mutation failure, no row for One or First, a row too many for One or Limit.
PhysicalFailure == CallFailed("Scan")
MutationFailure == ScanFailure /\ ~PhysicalFailure
NoRowsStop == op \in {"One", "First"} /\ log[2] = Call("Next", "false")
TooManyRowsStop ==
    /\ ~ScanFailure
    /\ \/ op = "One" /\ Calls("Next") = 2 /\ ~CallFailed("Next")
       \/ op = "Limit" /\ nrows > limit

\* C11: when All, One, First or Limit returns after a terminal error and a
\* failed Close(), the returned error matches both the terminal cause and the
\* close error.
C11_BothCausesKept ==
    (Done /\ ColumnsOk /\ CallFailed("Close")) =>
        /\ Is(retErr, CloseErr)
        /\ PhysicalFailure => Is(retErr, ScanErr)
        /\ MutationFailure => Is(retErr, UnmarshalErr)
        /\ NoRowsStop => Is(retErr, ErrNoRows)
        /\ TooManyRowsStop => Is(retErr, ErrTooManyRows)

\* C11 witness: Limit has returned after a failed physical scan and a failed
\* Close().
C11_Witness ==
    /\ Done /\ op = "Limit" /\ PhysicalFailure /\ CallFailed("Close")
    /\ Is(retErr, ScanErr) /\ Is(retErr, CloseErr)

\* C12: All, One, First and Limit, once Columns() succeeded, have called
\* Err() when they return, and an error it reported is in the error returned.
C12_ErrConsulted ==
    (Done /\ ColumnsOk) =>
        /\ Calls("Err") >= 1
        /\ CallFailed("Err") => (retErr # NilErr /\ Is(retErr, RowsErr))

\* C12 witness: All has returned every row decoded together with the error of
\* Err() alone.
C12_Witness ==
    /\ Done /\ op = "All" /\ nrows >= 1 /\ ~ScanFailure
    /\ Len(retList.elems) = nrows
    /\ retErr = RowsErr

\* C13: when Columns() fails, the call closes the cursor exactly once, makes
\* no Next, Scan or Err call, and returns the zero value and nil slice with an
\* error that matches the Columns error and, when Close() failed, its error.
C13_ColumnsFailure ==
    CallFailed("Columns") =>
        /\ Calls("Next") = 0 /\ Calls("Scan") = 0 /\ Calls("Err") = 0
        /\ Calls("Close") <= 1
        /\ Done =>
            /\ Calls("Close") = 1
            /\ retT = Zero /\ retList = NilSlice
            /\ Is(retErr, ColumnsErr)
            /\ CallFailed("Close") => Is(retErr, CloseErr)

\* C13 witness: a call has returned after Columns() and Close() both failed.
C13_Witness ==
    /\ Done /\ CallFailed("Columns") /\ CallFailed("Close")
    /\ retErr = ColumnsErr \o CloseErr

\* The last call of Iterator.Scan: there was one, its physical scan succeeded,
\* the cells it delivered, its mutations.
HasScan == scanned.n > 0
LastOk == HasScan /\ scans[Len(scans)].ok
LastCells == scans[Len(scans)].cells
Trace == scanned.trace
At(i) == {k \in 1..Len(Trace) : Trace[k].pos = i}
Reached(i) == \A k \in 1..Len(Trace) : Trace[k].pos < i => Trace[k].err = NilErr
BoundPositions == {i \in 1..Len(scanners) : scanners[i] # NoScanner}

\* The target after the setter calls of a trace, in the trace's order.
RECURSIVE Replay(_, _)
Replay(t, tr) ==
    IF tr = <<>> THEN t
    ELSE LET en == Head(tr)
         IN  Replay(IF en.args = <<>> THEN t ELSE Set(en.scanner.set, t, en.args[1]),
                    Tail(tr))

\* C14: a Column built by Null calls its setter exactly once per row, with
\* def when the scanned column is null and with the value, never def, when
\* it is not, and returns no error.
C14_NullDefault ==
    LastOk =>
        \A i \in 1..Len(scanners) :
            (scanners[i].kind = "Null" /\ Reached(i)) =>
                /\ Cardinality(At(i)) = 1
                /\ \A k \in At(i) :
                    /\ Trace[k].err = NilErr
                    /\ Trace[k].args =
                         <<IF LastCells[i] = NULL THEN scanners[i].def ELSE LastCells[i]>>
                    /\ LastCells[i] # NULL => Trace[k].args # <<scanners[i].def>>

\* C14 witness: a null title was scanned and the setter was called with the
\* default, which the target now holds.
C14_Witness ==
    /\ LastOk /\ columns = PostColumns /\ names = <<"id", "title">>
    /\ LastCells[2] = NULL
    /\ Trace[2].args = <<"default value">>
    /\ scanned.after.Title = "default value"

\* C15: a Column built by JSON whose payload does not decode returns the
\* decoder's error, which the call returns, without calling its setter or
\* changing the target; it calls the setter, with the decoded value, only
\* when the payload decodes.
C15_JSONDecodeFailure ==
    /\ LastOk =>
        /\ scanned.after = Replay(scanned.before, Trace)
        /\ \A k \in 1..Len(Trace) :
            Trace[k].scanner.kind = "JSON" =>
                LET u == Unmarshal(LastCells[Trace[k].pos])
                IN  /\ Trace[k].err = u.err
                    /\ u.err # NilErr =>
                        /\ Trace[k].args = <<>>
                        /\ scanned.err = u.err
                        /\ scanned.after = Replay(scanned.before, SubSeq(Trace, 1, k - 1))
                    /\ u.err = NilErr => Trace[k].args = <<u.value>>
    /\ (Done /\ MutationFailure) => Is(retErr, UnmarshalErr)

\* C15 witness: One has returned the decoder's error, the JSON Column being
\* the first of the row and the target still zero.
C15_Witness ==
    /\ Done /\ op = "One" /\ names = <<"authors", "title">>
    /\ Is(retErr, UnmarshalErr)
    /\ Trace[1].args = <<>>
    /\ scanned.after = Zero

\* C16: a column name the cursor reports and the mapping lacks is bound to
\* the discard slot with no mutation, so its value neither changes the target
\* nor fails; a mutation is called only for a reported name, with the
\* mapping's entry of that name, and only reported names get a slot.
C16_NameBinding ==
    ColumnsOk =>
        /\ \A i \in 1..Len(names) :
            names[i] \notin DOMAIN columns =>
                dest[i] = 0 /\ scanners[i] = NoScanner /\ At(i) = {}
        /\ \A k \in 1..Len(Trace) :
            /\ names[Trace[k].pos] \in DOMAIN columns
            /\ Trace[k].scanner = columns[names[Trace[k].pos]]
        /\ Cardinality({dest[i] : i \in 1..Len(dest)} \ {0})
              = Cardinality({i \in 1..Len(names) : names[i] \in DOMAIN columns})
        /\ LastOk => scanned.after = Replay(scanned.before, Trace)

\* C16 witness: a row with a column the mapping lacks was scanned with no
\* error, and the mapping has an entry the cursor does not report.
C16_Witness ==
    /\ LastOk /\ names = <<"id", "extra", "authors">>
    /\ LastCells[2] = "y" /\ scanned.err = NilErr
    /\ "title" \in DOMAIN columns
    /\ Len(Trace) = 2

\* C18: a call of Iterator.Scan makes one physical scan; when that fails no
\* mutation is applied; when the mutation at position j fails, exactly the
\* mutations of the bound positions up to j were called, in order, and that
\* error is returned; otherwise every bound position's mutation was called.
C18_ScanFailsFast ==
    /\ scanned.n = Calls("Scan") /\ Len(scans) = scanned.n
    /\ (HasScan /\ ~LastOk) =>
        Trace = <<>> /\ scanned.after = scanned.before /\ scanned.err = ScanErr
    /\ LastOk =>
        /\ \A k \in 1..Len(Trace) - 1 :
            Trace[k].pos < Trace[k + 1].pos /\ Trace[k].err = NilErr
        /\ scanned.after = Replay(scanned.before, Trace)
        /\ IF Trace # <<>> /\ Trace[Len(Trace)].err # NilErr
           THEN /\ scanned.err = Trace[Len(Trace)].err
                /\ {Trace[k].pos : k \in 1..Len(Trace)}
                     = {b \in BoundPositions : b <= Trace[Len(Trace)].pos}
           ELSE /\ scanned.err = NilErr
                /\ {Trace[k].pos : k \in 1..Len(Trace)} = BoundPositions

\* C18 witness: the mutation at position 1 failed and the bound position 2
\* was not applied.
C18_Witness ==
    /\ LastOk /\ names = <<"authors", "title">>
    /\ scanned.err = UnmarshalErr
    /\ Len(Trace) = 1 /\ BoundPositions = {1, 2}
    /\ scanned.after.Title = ""

\* C19: the mutations of a row are called in the order of the cursor column
\* positions, each on the target the earlier ones left, so of two Columns
\* writing the same state the one at the later position decides it.
C19_PositionOrder ==
    (LastOk /\ scanned.err = NilErr) =>
        /\ \A k \in 1..Len(Trace) - 1 : Trace[k].pos < Trace[k + 1].pos
        /\ scanned.after = Replay(scanned.before, Trace)
        /\ columns = OverlapColumns =>
            LET title(c) == IF c = NULL THEN "No Title" ELSE c
            IN  /\ names = <<"id", "title">> =>
                    scanned.after.Authors = <<LastCells[1], title(LastCells[2])>>
                /\ names = <<"title", "id">> =>
                    scanned.after.Authors = <<title(LastCells[1]), LastCells[2]>>
                /\ names = <<"id", "extra", "authors">> =>
                    scanned.after.Authors = Unmarshal(LastCells[3]).value
                /\ names = <<"authors", "title">> =>
                    scanned.after.Authors
                        = Append(Unmarshal(LastCells[1]).value, title(LastCells[2]))

\* C19 witness: a Column at position 3 assigned the state a Column at
\* position 1 had added to.
C19_Witness ==
    /\ LastOk /\ scanned.err = NilErr
    /\ columns = OverlapColumns /\ names = <<"id", "extra", "authors">>
    /\ scanned.after.Authors = <<"Jim", "Tim">>

\* C20: Scan is called only right after a Next that returned true, so at
\* most once per row and in the cursor's order, and after a Next that
\* returned false neither Next nor Scan is called.
C20_CallProtocol ==
    /\ \A i \in 1..Len(log) :
        /\ log[i].call = "Scan" => (i > 1 /\ log[i - 1] = Call("Next", "true"))
        /\ log[i] = Call("Next", "false") =>
            \A j \in (i + 1)..Len(log) : log[j].call \notin {"Next", "Scan"}
    /\ \A k \in 1..Len(scans) : scans[k].row = k /\ k <= nrows

\* C20 witness: All has scanned three rows and then seen Next return false.
C20_Witness ==
    /\ Done /\ op = "All" /\ Calls("Scan") = 3 /\ Calls("Next") = 4
    /\ CallFailed("Next")

\* ------------------------------------------- two Iterators of one mapping
\* Two Iterators built with Iter from the same Columns mapping, each over its
\* own cursor and driven by hand with Next and Scan (README.md:49-61). The
\* steps of the two interleave; rows.Scan and the loop over the scanners are
\* separate steps of Iterator.Scan.
Its == {1, 2}
PairNames == {<<"id", "title">>, <<"extra", "id">>}

\* The variables one Iter call declares: its ignore, then the v of each
\* Scanner's Scan() call, holding their initial values.
FreshSlots(ns) ==
    [j \in 1..Len(ns) + 1 |->
        IF j = 1 \/ ns[j - 1] \notin DOMAIN columns THEN NULL
        ELSE ZeroSlot(columns[ns[j - 1]])]

NewIterator(n, ns) ==
    [state |-> "new", nrows |-> n, names |-> ns, rindex |-> 0,
     dest |-> <<>>, scanners |-> <<>>, wrote |-> <<>>, trace |-> <<>>,
     typ |-> Zero, err |-> NilErr, seen |-> 0]

InitPair ==
    /\ op = "All" /\ limit = 0
    /\ columns \in ColumnsChoices
    /\ nrows = 0 /\ names = <<>> /\ calls = 0
    /\ rindex = 0 /\ log = <<>> /\ scans = <<>>
    /\ dest = <<>> /\ scanners = <<>> /\ slots = <<>>
    /\ index = 0 /\ list = NilSlice /\ typ = Zero /\ err = NilErr
    /\ ret = NoReturn /\ vals = <<>> /\ held = Zero /\ scanned = NoScan
    /\ pc = "pair"
    /\ retList = NilSlice /\ retT = Zero /\ retErr = NilErr
    /\ its \in [Its -> {NewIterator(MaxPairRows, ns) : ns \in PairNames}]
    /\ heap = <<>>
    /\ writer = 0

\* Iter(rows, columns) for Iterator k.
PairIter(k) ==
    /\ pc = "pair" /\ its[k].state = "new"
    /\ \E ok \in BOOLEAN :
         IF ok
         THEN /\ its' = [its EXCEPT ![k].state = "idle",
                                    ![k].dest = DestAt(its[k].names, Len(heap) + 1),
                                    ![k].scanners = ScannersFor(its[k].names)]
              /\ heap' = heap \o FreshSlots(its[k].names)
         ELSE /\ its' = [its EXCEPT ![k].state = "failed", ![k].err = ColumnsErr]
              /\ heap' = heap
    /\ UNCHANGED <<call, writer>>

\* Iterator.Next of Iterator k.
PairNext(k) ==
    /\ pc = "pair" /\ its[k].state = "idle"
    /\ its' = [its EXCEPT ![k].rindex = @ + 1,
                          ![k].state = IF its[k].rindex < its[k].nrows
                                       THEN "row" ELSE "end"]
    /\ UNCHANGED <<call, heap, writer>>

\* Iterator.Scan of Iterator k, up to the return of rows.Scan.
PairRowsScan(k) ==
    /\ pc = "pair" /\ its[k].state = "row"
    /\ \E ok \in BOOLEAN, cells \in RowContents(its[k].names) :
         IF ok
         THEN /\ heap' = WrittenWith(its[k].dest, heap, cells)
              /\ writer' = k
              /\ its' = [its EXCEPT ![k].state = "mid", ![k].wrote = cells,
                                    ![k].trace = <<>>, ![k].err = NilErr]
         ELSE /\ its' = [its EXCEPT ![k].state = "idle", ![k].wrote = <<>>,
                                    ![k].trace = <<>>, ![k].err = ScanErr]
              /\ UNCHANGED <<heap, writer>>
    /\ UNCHANGED call

\* Iterator.Scan of Iterator k, the loop over its scanners, on a zero target.
PairMutate(k) ==
    /\ pc = "pair" /\ its[k].state = "mid"
    /\ LET r == ApplyWith(its[k].scanners, its[k].dest, 1, heap, Zero)
       IN  its' = [its EXCEPT ![k].state = "idle", ![k].trace = r.trace,
                              ![k].typ = r.typ, ![k].err = r.err,
                              ![k].seen = writer]
    /\ UNCHANGED <<call, heap, writer>>

NextPair ==
    \/ \E k \in Its : PairIter(k)
    \/ \E k \in Its : PairNext(k)
    \/ \E k \in Its : PairRowsScan(k)
    \/ \E k \in Its : PairMutate(k)

SpecPair == InitPair /\ [][NextPair]_vars

\* The addresses an Iterator's destinations point at.
Slots(k) == {its[k].dest[i] : i \in 1..Len(its[k].dest)}
Built(k) == its[k].state \notin {"new", "failed"}

\* C17: two Iterators built from the same Columns mapping share no destination
\* slot, and however their steps interleave every mutation an Iterator calls
\* receives the value its own cursor wrote at that position of its current row.
C17_FreshSlotsPerIter ==
    /\ (Built(1) /\ Built(2)) => Slots(1) \cap Slots(2) = {}
    /\ \A k \in Its : \A j \in 1..Len(its[k].trace) :
         its[k].trace[j].got = its[k].wrote[its[k].trace[j].pos]

\* Iterator 1 ran its mutations after Iterator 2's cursor had written a
\* different row of the same columns in between.
C17_Witness ==
    /\ its # <<>>
    /\ its[1].names = its[2].names
    /\ its[1].trace # <<>> /\ its[1].seen = 2
    /\ its[2].state = "mid"
    /\ its[1].wrote # its[2].wrote

\* The last call of Next or Scan on the cursor, as a position of the log
\* (0 when there was none).
LastMove ==
    LET ms == {i \in 1..Len(log) : log[i].call \in {"Next", "Scan"}}
    IN  IF ms = {} THEN 0 ELSE CHOOSE i \in ms : \A j \in ms : j <= i

\* C21: once a call of Iterator.Scan has failed, on the physical scan or on a
\* mutation, All, One, First and Limit call neither Next nor Scan again (the
\* failing Scan stays the cursor's last move and the last Scan made), and the
\* error they return matches the failure.
C21_NoRetryNoSkip ==
    scanned.err # NilErr =>
        /\ LastMove > 0 /\ log[LastMove].call = "Scan"
        /\ Calls("Scan") = scanned.n
        /\ (log[LastMove].res = "err") = (scanned.err = ScanErr)
        /\ Done => Is(retErr, scanned.err)

\* C21 witness: All has returned the mutation failure of row 1 of a cursor of
\* three rows, having scanned no other row.
C21_Witness ==
    /\ Done /\ op = "All" /\ nrows = 3
    /\ scanned.n = 1 /\ scanned.err = UnmarshalErr
    /\ Calls("Next") = 1 /\ Calls("Scan") = 1
    /\ Is(retErr, UnmarshalErr)

\* C22: in a call of All, One, First or Limit rows.Columns() is called once,
\* as the cursor's first operation and so before any Next, and every
\* rows.Scan of the call is handed the destinations bound then: one per
\* reported column name, the same slot at each position for every row.
C22_BoundOnce ==
    /\ Calls("Columns") <= 1
    /\ \A i \in 1..Len(log) : (log[i].call = "Columns") = (i = 1)
    /\ \A k \in 1..Len(scans) :
        /\ ColumnsOk
        /\ Len(scans[k].dest) = Len(names)
        /\ scans[k].dest = BindDest
        /\ scans[k].dest = scans[1].dest

\* C22 witness: All has scanned three rows of a cursor reporting a name the
\* mapping lacks; row 3 was handed the destinations of row 1.
C22_Witness ==
    /\ Done /\ op = "All" /\ names = <<"id", "extra", "authors">>
    /\ Len(scans) = 3 /\ Calls("Columns") = 1
    /\ scans[3].dest = scans[1].dest
    /\ scans[3].dest[2] = 0 /\ scans[3].dest[1] # scans[3].dest[3]

\* C23: Limit(n) calls Scan only with its write index below n and inside the
\* buffer; on a cursor of m > n rows whose scans succeed it has, when it
\* returns, called Next n + 1 times and Scan n times, on rows 1..n, and never
\* on row n + 1.
C23_OverLimitDetection ==
    op = "Limit" =>
        /\ pc = "Limit_263" => index < limit /\ index < Len(list.elems)
        /\ \A k \in 1..Len(scans) : scans[k].row = k /\ k <= limit
        /\ (Done /\ ColumnsOk /\ nrows > limit /\ ~ScanFailure) =>
            /\ Calls("Next") = limit + 1
            /\ Calls("Scan") = limit
            /\ Len(scans) = limit

\* C23 witness: Limit(2) has returned on a cursor of three rows after two
\* scans and three calls of Next.
C23_Witness ==
    /\ Done /\ op = "Limit" /\ limit = 2 /\ nrows = 3 /\ ~ScanFailure
    /\ Calls("Next") = 3 /\ Calls("Scan") = 2
    /\ scans[2].row = 2

\* C24: when All or Limit returns after a failed physical scan, a failed
\* mutation or, for Limit, a row beyond the limit, the slice it returns is
\* nil, whatever rows it had decoded.
C24_NoPartialResult ==
    (/\ Done /\ op \in {"All", "Limit"} /\ ColumnsOk
     /\ ScanFailure \/ (op = "Limit" /\ TooManyRowsStop))
        => retList = NilSlice

\* C24 witness: Limit(2) has returned nil and ErrTooManyRows on a cursor of
\* three rows, its buffer holding the two rows it decoded.
C24_Witness ==
    /\ Done /\ op = "Limit" /\ limit = 2 /\ nrows = 3 /\ TooManyRowsStop
    /\ Len(list.elems) = 2 /\ list.elems[1] # Zero
    /\ retList = NilSlice
    /\ Is(retErr, ErrTooManyRows)

\* C25: with a cursor and setters whose own errors are neither sentinel, the
\* error All returns matches neither ErrNoRows nor ErrTooManyRows, the error
\* First returns does not match ErrTooManyRows, the error Limit returns does
\* not match ErrNoRows, and the error One returns does not match both.
C25_SentinelsPerOperation ==
    Done =>
        /\ op = "All" => ~Is(retErr, ErrNoRows) /\ ~Is(retErr, ErrTooManyRows)
        /\ op = "First" => ~Is(retErr, ErrTooManyRows)
        /\ op = "Limit" => ~Is(retErr, ErrNoRows)
        /\ op = "One" => ~(Is(retErr, ErrNoRows) /\ Is(retErr, ErrTooManyRows))

\* C25 witness: One has returned ErrTooManyRows joined with the errors of
\* Err() and Close(), and not ErrNoRows.
C25_Witness ==
    /\ Done /\ op = "One"
    /\ Is(retErr, ErrTooManyRows) /\ Is(retErr, RowsErr) /\ Is(retErr, CloseErr)
    /\ ~Is(retErr, ErrNoRows)

\* ----------------------------------------------- an Iterator driven by hand
\* The caller calls Iter and then the Iterator's methods itself, in any
\* order: Next, Scan, Value, Err, Close, All, One, First, Limit
\* (README.md:49-61).  The cursor is fakeRows: it answers every call, whatever
\* came before.
HandNames == {<<"id">>}

InitHand ==
    /\ NoPair
    /\ op = "Iter" /\ limit = 0
    /\ columns \in ColumnsChoices
    /\ nrows = MaxHandRows
    /\ names \in HandNames
    /\ calls = 0
    /\ rindex = 0 /\ log = <<>> /\ scans = <<>>
    /\ dest = <<>> /\ scanners = <<>> /\ slots = <<>>
    /\ index = 0 /\ list = NilSlice /\ typ = Zero /\ err = NilErr
    /\ ret = NoReturn /\ vals = <<>> /\ held = Zero /\ scanned = NoScan
    /\ pc = "call"
    /\ retList = NilSlice /\ retT = Zero /\ retErr = NilErr

\* The caller holds the Iterator and may still call a method.
Idle == pc = "idle" /\ calls < MaxHandCalls

\* iter.Next()
HandNext ==
    /\ Idle
    /\ RowsNext
    /\ calls' = calls + 1
    /\ UNCHANGED <<pair, op, limit, columns, nrows, names, iterator, slots, locals,
                   ret, vals, held, scanned, pc, results>>

\* iter.Scan(&typ), into a variable of the caller
HandScan ==
    /\ Idle
    /\ \E ok \in BOOLEAN, cells \in RowContents(names) :
        LET r == IteratorScan(typ, ok, cells)
        IN  /\ scanned' = Scanned(typ, r)
            /\ log' = Append(log, Call("Scan", IF ok THEN "ok" ELSE "err"))
            /\ scans' = Append(scans, ScanRecord(ok, cells))
            /\ slots' = r.slots
            /\ typ' = r.typ
            /\ retErr' = r.err
    /\ calls' = calls + 1
    /\ UNCHANGED <<pair, op, limit, columns, nrows, names, rindex, iterator,
                   index, list, err, ret, vals, held, pc, retList, retT>>

\* iter.Value(): var t T; return t, i.Scan(&t).  The read of the operand t is
\* not ordered against the call that writes it.
HandValue ==
    /\ Idle
    /\ \E ok \in BOOLEAN, cells \in RowContents(names) :
        LET r == IteratorScan(Zero, ok, cells)
        IN  /\ scanned' = Scanned(Zero, r)
            /\ log' = Append(log, Call("Scan", IF ok THEN "ok" ELSE "err"))
            /\ scans' = Append(scans, ScanRecord(ok, cells))
            /\ slots' = r.slots
            /\ retT' \in OperandRead(Zero, r.typ)
            /\ retErr' = r.err
    /\ calls' = calls + 1
    /\ UNCHANGED <<pair, op, limit, columns, nrows, names, rindex, iterator,
                   locals, ret, vals, held, pc, retList>>

\* iter.Err()
HandErr ==
    /\ Idle
    /\ \E e \in {NilErr, RowsErr} :
        /\ log' = Append(log, Call("Err", IF e = NilErr THEN "nil" ELSE "err"))
        /\ retErr' = e
    /\ calls' = calls + 1
    /\ UNCHANGED <<pair, op, limit, columns, nrows, names, rindex, scans, iterator,
                   slots, locals, ret, vals, held, scanned, pc, retList, retT>>

\* iter.Close()
HandClose ==
    /\ Idle
    /\ \E e \in {NilErr, CloseErr} :
        /\ log' = Append(log, Call("Close", IF e = NilErr THEN "nil" ELSE "err"))
        /\ retErr' = e
    /\ calls' = calls + 1
    /\ UNCHANGED <<pair, op, limit, columns, nrows, names, rindex, scans, iterator,
                   slots, locals, ret, vals, held, scanned, pc, retList, retT>>

\* iter.All(), iter.One(), iter.First() or iter.Limit(n): the var block of
\* the method, up to its first statement.
HandCall ==
    /\ Idle
    /\ \E o \in Ops, n \in 0..MaxLimit :
        /\ o # "Limit" => n = 0
        /\ op' = o
        /\ limit' = n
        /\ list' = IF o = "Limit" THEN Slice([i \in 1..n |-> Zero]) ELSE NilSlice
        /\ pc' = Entry(o)
    /\ index' = 0 /\ typ' = Zero /\ err' = NilErr
    /\ calls' = calls + 1
    /\ UNCHANGED <<pair, columns, nrows, names, cursor, iterator, slots,
                   ret, vals, held, scanned, results>>

\* The method has returned: the caller holds the Iterator again.
HandResume ==
    /\ pc = "done" /\ op \in Ops
    /\ pc' = "idle"
    /\ UNCHANGED <<pair, inputs, cursor, iterator, slots, locals, ret, vals,
                   held, scanned, results>>

NextHand ==
    \/ Next
    \/ HandNext
    \/ HandScan
    \/ HandValue
    \/ HandErr
    \/ HandClose
    \/ HandCall
    \/ HandResume

SpecHand == InitHand /\ [][NextHand]_vars

\* C26: over any sequence of method calls on one Iterator the cursor's Close
\* is invoked at most once, and it is the cursor's last operation.
C26_ClosedIsTerminal ==
    /\ Calls("Close") <= 1
    /\ \A i \in 1..Len(log) : log[i].call = "Close" => i = Len(log)

\* Close, where the cursor's log has one, is its last entry.
CloseIsLast == \A i \in 1..Len(log) : log[i].call = "Close" => i = Len(log)

\* Err() was called before position i of the log.
ErrBefore(i) == \E j \in 1..(i - 1) : log[j].call = "Err"

\* C27, as stated: in every call of All, One, First or Limit that calls
\* Close, Err() was read before Close and Close is the cursor's last
\* operation.  It fails when Columns() fails: Iter closes the cursor without
\* reading Err().
C27_ErrThenCloseLast ==
    /\ CloseIsLast
    /\ \A i \in 1..Len(log) : log[i].call = "Close" => ErrBefore(i)

\* C27, amended: Close is the cursor's last operation in every call that
\* calls it; Err() was read before it when Columns() succeeded, and when
\* Columns() failed Close follows it directly and Err() is never read.
C27_CloseLast ==
    /\ CloseIsLast
    /\ \A i \in 1..Len(log) : log[i].call = "Close" =>
        IF ColumnsOk THEN ErrBefore(i) /\ log[i - 1].call = "Err"
        ELSE i = 2 /\ log[1] = Call("Columns", "err")
    /\ Done => log[Len(log)].call \in {"Close", "Err"}

\* C27 witness: One has returned after two successful Next and a Scan, with
\* Err() then Close() as the cursor's last two operations.
C27_Witness ==
    /\ Done /\ op = "One" /\ Calls("Next") = 2 /\ Calls("Scan") = 1
    /\ log[Len(log)].call = "Close"
    /\ log[Len(log) - 1].call = "Err"

\* Something failed in the call: Columns(), a physical scan, a mutation, a
\* stop condition, Err() or Close().
SomethingFailed ==
    \/ CallFailed("Columns")
    \/ ColumnsOk /\ \/ ScanFailure
                    \/ NoRowsStop
                    \/ TooManyRowsStop
                    \/ CallFailed("Err")
                    \/ CallFailed("Close")

\* C28: the error All, One, First and Limit return is nil exactly when
\* nothing failed: Columns() succeeded, every physical scan and mutation
\* succeeded, no stop condition was violated, and Err() and Close() returned
\* nil.
C28_NilErrorIffNoFailure == Done => ((retErr = NilErr) <=> ~SomethingFailed)

\* C28 witness: One has returned a nil error for a cursor of one row with a
\* decoded JSON column, after Err() and Close() both returned nil.
C28_Witness ==
    /\ Done /\ op = "One" /\ retErr = NilErr /\ nrows = 1
    /\ Calls("Scan") = 1 /\ Calls("Err") = 1 /\ Calls("Close") = 1
    /\ retT.Authors = <<"Jim", "Tim">>

\* C29: when All or Limit has scanned every row, within the limit, and Err()
\* or Close() reports an error, it returns that error together with every
\* row decoded, in order; the slice is nil only for All on a cursor without
\* rows, whose list was never appended to.
C29_ResultKeptOnLateError ==
    (/\ Done /\ op \in {"All", "Limit"} /\ ColumnsOk
     /\ ~ScanFailure /\ (op = "Limit" => nrows <= limit)
     /\ CallFailed("Err") \/ CallFailed("Close"))
        => /\ retErr # NilErr
           /\ DecodedList
           /\ retList.isNil <=> (op = "All" /\ nrows = 0)

\* C29 witness: Limit(3) has returned both rows of a cursor of two rows
\* together with the error of Err().
C29_Witness ==
    /\ Done /\ op = "Limit" /\ limit = 3 /\ nrows = 2
    /\ CallFailed("Err") /\ ~CallFailed("Close")
    /\ retErr = RowsErr
    /\ Len(retList.elems) = 2 /\ DecodedList

====
